---- MODULE Spec2Model ----
(***************************************************************************)
(* Model of the feed-ingestion service (app/services/websocket_service.py, *)
(* app/utils/kafka_producer.py, app/main.py).                              *)
(*                                                                         *)
(* Two execution contexts share one WebsocketService object:               *)
(*   - the worker thread that runs connect_and_subscribe() (started by     *)
(*     main() through run_in_executor), and                                *)
(*   - the event loop, which runs start() and the stop() coroutine.        *)
(* The worker and stop() interleave at the granularity of single reads and *)
(* writes of the service's fields, so every such access is a step.         *)
(***************************************************************************)
EXTENDS Integers, FiniteSets, Sequences, TLC

\* ---------------------------------------------------------------- bounds
\* Number of WSClient objects the model tracks at the same time.
MaxClients == 3
\* Number of times stop() is invoked (signal handler, main()'s finally).
MaxStops == 2
\* Size of a frame: its events plus the candles they carry.
MaxFrameSize == 3
\* Number of publish tasks that have not finished.
MaxTasks == 2
\* Number of termination/interrupt signals delivered to the process.
MaxSignals == 2
\* seconds of wall clock followed
MaxClock == 365
\* close() calls that raise
MaxCloseErrors == 2
\* length of the strings tried as a candle's `start`
MaxDigits == 2
\* send_message() calls made on the publisher
MaxSends == 3
\* contexts that call record_message() at the same time
MaxContexts == 2
\* record_message() calls made in all
MaxRecords == 3

\* ------------------------------------------------------ program constants
\* @on_exception(expo, WSClientConnectionClosedException, max_tries=5)
MAX_TRIES == 5
\* Settings.RECONNECT_DELAY default, in seconds
RECONNECT_DELAY == 20

None == 0
Clients == 1..MaxClients
\* worker 1 is the call main() makes; worker 2 is a second invocation of
\* connect_and_subscribe() on the same instance (only under SpecRestart)
Workers == {1, 2}

VARIABLES
    \* --- configuration
    KAFKA_ENABLED,      \* config.KAFKA_ENABLED
    \* --- WebsocketService fields
    should_run,         \* self._should_run
    shutdown_event,     \* self._shutdown_event.is_set()
    client,             \* self._client: None or a WSClient
    kafka_connected,    \* self._kafka_connected
    \* --- KafkaMessageProducer fields
    producer,           \* self.producer is not None
    connected,          \* self._connected
    \* --- WSClient objects: opened (open() has returned), live (opened and
    \*     no close() since), closes (close() calls)
    sock,
    \* --- main()
    mainPc,
    \* --- the worker thread(s) running connect_and_subscribe()
    pc,                 \* position of each worker
    tries,              \* backoff's try counter of the current call
    local,              \* the local variable `client`
    brk,                \* leaving the while loop after the finally block
    \* --- the stop() coroutine
    stopPc,
    stopCalls,
    \* --- history (observations of the run, written but never read by the
    \*     program's actions)
    fails,              \* connection-closed failures of the current call
    session,            \* per worker: is a mid-session drop awaiting its
                        \* reconnect, the seconds slept since it, and has
                        \* the current connection been subscribed
    hist,               \* record of flags, see Init
    \* --- on_message(): the frame being handled and the position in it
    frame,              \* the decoded ws_object, NoFrame between two calls
    hpc,                \* position of on_message
    event_i,            \* iteration of `for event in message['events']`
    candle_i,           \* iteration of `for candle in event.get('candles')`
    \* --- the sinks; the Prometheus counters only ever grow, the model
    \*     keeps what has been added since on_message was last entered
    metrics,            \* app.utils.metrics.metrics
    log,                \* records written through self.logger
    \* --- asyncio tasks created at line 98, each running send_message()
    tasks,
    \* --- the process: main()'s tasks and the interpreter's exit
    health_task,        \* the task running run_health_server()
    main_cancelled,     \* the main() task has been cancelled
    shutdown_pending,   \* the signal handler's tasks are scheduled
    handlers,           \* main() has installed its signal handlers
    signals,            \* signals delivered so far
    exit_status,        \* exit status of the process, Running before
    \* --- GET /health: the wall clock in seconds and what the handler reads
    clock,              \* datetime.now()
    last_seen,          \* value of the gauge last_message_timestamp
    response,           \* the Response of the health_check() just run
    \* --- one candle as it comes off the wire and what is made of it
    candle,             \* the candle object, a dict
    log_message,        \* what log_candle_json() hands to logger.info
    kafka_message,      \* the dict built at lines 87-96
    published,          \* what producer.send_and_wait() is called with
    \* --- the retries of one call of _establish_connection()
    delays,             \* the seconds slept before each retry so far
    \* --- the calls made on the KafkaMessageProducer and what they did
    publisher,          \* see NoPublisher
    \* --- the contexts inside Metrics.record_message()
    recording           \* per context: the line it is at and its symbol

svcVars    == <<should_run, shutdown_event, client, kafka_connected>>
kafkaVars  == <<producer, connected>>
workerVars == <<pc, tries, local, brk>>
stopVars   == <<stopPc, stopCalls>>
histVars   == <<fails, session, hist>>
feedVars   == <<frame, hpc, event_i, candle_i, metrics, log, tasks>>
procVars   == <<health_task, main_cancelled, shutdown_pending, handlers,
                signals, exit_status>>
healthVars == <<clock, last_seen, response>>
\* what neither the service nor main() writes
recordVars == <<candle, log_message, kafka_message, published>>
fixedVars  == <<KAFKA_ENABLED, healthVars, recordVars, delays, publisher,
                recording>>
\* what the lifecycle methods of the service never write
otherVars  == <<fixedVars, feedVars, procVars>>
vars == <<otherVars, svcVars, kafkaVars, sock, mainPc, workerVars,
          stopVars, histVars>>

NoDrop == [pending |-> FALSE, waited |-> 0, subscribed |-> FALSE]
FreshSock == [opened |-> FALSE, live |-> FALSE, closes |-> 0]

\* A WSClient object that nothing refers to any more and that holds no open
\* socket can be forgotten; its slot is reused for the next WSClient(...).
Referenced(c) == client = c \/ \E w \in Workers : local[w] = c
Free(c) == ~Referenced(c) /\ ~sock[c].live
HasFree == \E c \in Clients : Free(c)
NewClient == CHOOSE c \in Clients : Free(c) /\ \A d \in Clients : Free(d) => c <= d

\* the objects in s that the handle h and the locals l do not refer to and
\* that hold no open socket are forgotten
Forget(s, h, l) ==
    [c \in Clients |->
        IF h # c /\ (\A w \in Workers : l[w] # c) /\ ~s[c].live
          THEN FreshSock ELSE s[c]]

\* the set of sockets that are open right now
LiveSocks == {c \in Clients : sock[c].live}

\* ------------------------------------------------------- frames on the wire
\* What json.loads (line 77) makes of the text of a frame: it raises
\* JSONDecodeError ("not_json"), gives a value that is no container, such
\* as a number or null ("scalar"), or gives an object with or without the
\* key `events`.
NoKey == "<missing>"
NoFrame == [kind |-> "none"]
Symbols == {"BTC-USD", "ETH-USD"}
EventTypes == {NoKey, "subscriptions", "snapshot", "update"}

\* A candle object: its product_id (or none), and whether all the other
\* fields are present with a `start` that int() accepts.
Candles ==
    {[product_id |-> p, rest_ok |-> TRUE] : p \in Symbols \cup {NoKey}}
      \cup {[product_id |-> "BTC-USD", rest_ok |-> FALSE]}

\* the candle has every field log_candle_json and kafka_message read
Complete(c) == c.product_id # NoKey /\ c.rest_ok

RECURSIVE CandleSeqs(_)
CandleSeqs(n) ==
    IF n = 0 THEN {<<>>}
    ELSE {<<c>> \o cs : c \in Candles, cs \in CandleSeqs(n - 1)}

\* the events that take k places of a frame: the event and k-1 candles
EventsOfSize(k) ==
    {[type |-> t, candles |-> cs] : t \in EventTypes, cs \in CandleSeqs(k - 1)}

RECURSIVE EventSeqs(_)
EventSeqs(n) ==
    IF n = 0 THEN {<<>>}
    ELSE UNION {{<<e>> \o es : e \in EventsOfSize(k), es \in EventSeqs(n - k)}
                  : k \in 1..n}

Frames ==
    {[kind |-> "not_json"], [kind |-> "scalar"],
     [kind |-> "object", has_events |-> FALSE, events |-> <<>>]}
      \cup {[kind |-> "object", has_events |-> TRUE, events |-> es] :
               es \in UNION {EventSeqs(n) : n \in 0..MaxFrameSize}}

RECURSIVE CandleCount(_)
CandleCount(es) ==
    IF es = <<>> THEN 0 ELSE Len(Head(es).candles) + CandleCount(Tail(es))

\* the sinks with nothing added
NoMetrics == [messages_processed |-> 0,
              messages_by_symbol |-> [y \in Symbols |-> 0],
              message_processing_time |-> 0,   \* observations
              last_message_timestamp |-> 0,    \* set() calls
              connection_errors |-> 0,
              counted |-> <<>>]   \* the candles record_message was called for
NoLog == [info |-> <<>>,          \* the candles log_candle_json has written
          error |-> 0]            \* logger.error calls
NoTasks == [queued |-> 0,         \* created, send_message not yet entered
            sending |-> 0,        \* awaiting producer.send_and_wait
            submitted |-> <<>>]   \* the candles a task was created for

FeedInit ==
    /\ frame = NoFrame
    /\ hpc = "idle"
    /\ event_i = 0
    /\ candle_i = 0
    /\ metrics = NoMetrics
    /\ log = NoLog
    /\ tasks = NoTasks

\* exit_status while the process has not exited
Running == -1

\* no candle is being converted
Nothing == [state |-> "none"]
\* the clock, in seconds, when main() runs
Boot == 0
NoResponse == [status_code |-> 0, content |-> ""]

\* main.py:49: the gauge is set to the time of the start
HealthInit ==
    /\ clock = Boot
    /\ last_seen = Boot
    /\ response = NoResponse

\* the publisher after KafkaMessageProducer(...), kafka_producer.py:11-16,
\* with no call made on it yet
NoPublisher ==
    [connect |-> "idle",       \* connect(): "idle", "start" (awaiting
                               \* producer.start()), "returned", "raised"
     disconnects |-> 0,        \* disconnect() calls so far
     stopping |-> 0,           \* disconnect() calls awaiting producer.stop()
     sends |-> 0,              \* send_message() calls so far
     sending |-> 0,            \* send_message() calls awaiting send_and_wait
     refused |-> 0,            \* RuntimeError("Not connected ...") raised
     broker |-> [start |-> 0, stop |-> 0, send_and_wait |-> 0],
                               \* the calls made on the AIOKafkaProducer
     disconnected |-> FALSE]   \* a disconnect() has returned without error

\* the threads and tasks that may call metrics.record_message()
Contexts == 1..MaxContexts
\* a context that is not inside record_message()
Outside == [line |-> 0, symbol |-> ""]

\* main.py:52-64 on a platform with signal handlers
ProcStart ==
    /\ HealthInit
    /\ candle = Nothing
    /\ log_message = Nothing
    /\ kafka_message = Nothing
    /\ published = Nothing
    /\ delays = <<>>
    /\ publisher = NoPublisher
    /\ recording = [x \in Contexts |-> Outside]
    /\ health_task = "running"
    /\ main_cancelled = FALSE
    /\ shutdown_pending = FALSE
    /\ signals = 0
    /\ exit_status = Running

ProcInit ==
    /\ ProcStart
    /\ handlers = TRUE

\* the service after WebsocketService(settings), main.py:54
ServiceInit ==
    /\ KAFKA_ENABLED \in BOOLEAN
    /\ should_run = TRUE
    /\ shutdown_event = FALSE
    /\ client = None
    /\ kafka_connected = FALSE
    /\ producer = FALSE
    /\ connected = FALSE
    /\ sock = [c \in Clients |-> FreshSock]
    /\ mainPc = "init"
    /\ pc = [w \in Workers |-> "idle"]
    /\ tries = [w \in Workers |-> 0]
    /\ local = [w \in Workers |-> None]
    /\ brk = [w \in Workers |-> FALSE]
    /\ stopPc = "idle"
    /\ stopCalls = 0
    /\ fails = [w \in Workers |-> 0]
    /\ session = [w \in Workers |-> NoDrop]
    /\ hist = [ phase           |-> "first",\* "first": no open() has succeeded
                                           \* yet; "connected": one has;
                                           \* "exhausted": backoff gave up first
                badWait         |-> FALSE, \* an attempt after a drop was not
                                           \* preceded by RECONNECT_DELAY
                reconnected     |-> FALSE, \* an attempt has followed a drop
                quiet           |-> 0,     \* stop() calls that returned in a
                                           \* row, no such write in between
                closedThisStop  |-> 0,     \* close() calls of this stop()
                closeErrors     |-> 0,     \* close() calls that have raised
                discFailed      |-> FALSE, \* a producer.stop() has raised
                written         |-> FALSE, \* start() or the worker wrote a
                                           \* field since stop() was called
                endState        |-> <<>> ] \* fields when stop() last returned

Init ==
    /\ ServiceInit
    /\ FeedInit
    /\ ProcInit

\* ------------------------------------------------------------------ main()
\* main() and stop() are coroutines of one event loop (main.py:87): code of
\* main() runs only while stop() has not started, has ended, or is
\* suspended at its await (line 46).
LoopFree == stopPc \in {"idle", "disconnect", "done", "cancelled"}

\* main.py:68 / WebsocketService.start(): connect the producer when Kafka is
\* enabled; a failing connect is re-raised and main() goes to its finally.
KafkaConnectOk ==
    /\ producer' = TRUE
    /\ connected' = TRUE
    /\ kafka_connected' = TRUE
    /\ mainPc' = "started"

KafkaConnectSwallowed ==
    /\ producer' = TRUE
    /\ UNCHANGED <<connected, kafka_connected>>
    /\ mainPc' = "started"

KafkaConnectRaises ==
    /\ producer' = TRUE
    /\ UNCHANGED <<connected, kafka_connected>>
    /\ mainPc' = "failed"

Start ==
    /\ mainPc = "init"
    /\ LoopFree
    /\ IF KAFKA_ENABLED
         THEN KafkaConnectOk \/ KafkaConnectRaises
         ELSE /\ mainPc' = "started"
              /\ UNCHANGED <<producer, connected, kafka_connected>>
    /\ hist' = [hist EXCEPT !.written = @ \/ KAFKA_ENABLED]
    /\ UNCHANGED <<otherVars, should_run, shutdown_event, client, sock,
                   workerVars, stopVars, fails, session>>

\* main.py:71: run_in_executor(None, ws_service.connect_and_subscribe)
Launch ==
    /\ mainPc = "started"
    /\ LoopFree
    /\ mainPc' = "running"
    /\ pc' = [pc EXCEPT ![1] = "loop"]
    /\ UNCHANGED <<otherVars, svcVars, kafkaVars, sock, tries, local, brk,
                   stopVars, histVars>>

\* A second invocation of connect_and_subscribe() on the same instance (the
\* method has no guard on the instance's state), made while the first loop
\* is in its blocking receive or after it has returned.
StartAgain ==
    /\ pc[1] \in {"run", "done"}
    /\ pc[2] = "idle"
    /\ pc' = [pc EXCEPT ![2] = "loop"]
    /\ UNCHANGED <<otherVars, svcVars, kafkaVars, sock, mainPc, tries,
                   local, brk, stopVars, histVars>>

\* ------------------------------------------------- connect_and_subscribe()
Goto(w, l) == pc' = [pc EXCEPT ![w] = l]

\* line 117: while self._should_run
LoopTest(w) ==
    /\ pc[w] = "loop"
    /\ IF should_run
         THEN /\ Goto(w, "est_new")
              /\ tries' = [tries EXCEPT ![w] = 0]
              /\ fails' = [fails EXCEPT ![w] = 0]
         ELSE /\ Goto(w, "done")
              /\ UNCHANGED <<tries, fails>>
    \* `client` of the previous iteration is dead: it is assigned before use
    /\ local' = [local EXCEPT ![w] = None]
    /\ sock' = Forget(sock, client, local')
    /\ UNCHANGED <<otherVars, svcVars, kafkaVars, mainPc, brk,
                   stopVars, session, hist>>

\* backoff's give-up test after a failed try: tries == max_tries
MaxTriesOffByOne(t) == t = MAX_TRIES + 1
MaxTriesExceeded(t) == t = MAX_TRIES

\* line 63: self._client = WSClient(...), one try of the backoff loop
EstablishNew(w) ==
    /\ pc[w] = "est_new"
    /\ HasFree
    /\ client' = NewClient
    /\ sock' = Forget([sock EXCEPT ![NewClient] = FreshSock], client', local)
    /\ tries' = [tries EXCEPT ![w] = @ + 1]
    /\ Goto(w, "est_open")
    /\ session' = [session EXCEPT ![w] = NoDrop]
    /\ hist' = [hist EXCEPT
                  !.written = TRUE,
                  !.reconnected = @ \/ session[w].pending,
                  !.badWait = @ \/ (session[w].pending
                                     /\ session[w].waited # RECONNECT_DELAY)]
    /\ UNCHANGED <<otherVars, should_run, shutdown_event, kafka_connected,
                   kafkaVars, mainPc, local, brk, stopVars, fails>>

\* line 71: self._client.open(); the field is read again here, so a stop()
\* that has set it to None in between makes this an AttributeError
OpenOk(w) ==
    /\ client # None
    /\ sock' = [sock EXCEPT ![client].opened = TRUE, ![client].live = TRUE]
    /\ Goto(w, "est_ret")
    /\ hist' = [hist EXCEPT !.phase = IF @ = "first" THEN "connected" ELSE @]
    /\ UNCHANGED <<tries, fails>>

OpenConnectionClosed(w) ==
    /\ client # None
    /\ IF MaxTriesExceeded(tries[w])
         THEN /\ Goto(w, "exc")
              /\ tries' = [tries EXCEPT ![w] = 0]
              /\ fails' = [fails EXCEPT ![w] = 0]
              /\ hist' = [hist EXCEPT
                            !.phase = IF @ = "first" THEN "exhausted" ELSE @]
         ELSE /\ Goto(w, "est_wait")
              /\ fails' = [fails EXCEPT ![w] = @ + 1]
              /\ UNCHANGED <<tries, hist>>
    /\ UNCHANGED sock

\* any other exception (AttributeError on None included) is not retried
OpenOtherError(w) ==
    /\ Goto(w, "exc")
    /\ tries' = [tries EXCEPT ![w] = 0]
    /\ fails' = [fails EXCEPT ![w] = 0]
    /\ UNCHANGED <<sock, hist>>

EstablishOpen(w) ==
    /\ pc[w] = "est_open"
    /\ (OpenOk(w) \/ OpenConnectionClosed(w) \/ OpenOtherError(w))
    /\ UNCHANGED <<otherVars, svcVars, kafkaVars, mainPc, local,
                   brk, stopVars, session>>

\* backoff sleeps between two tries
EstablishWait(w) ==
    /\ pc[w] = "est_wait"
    /\ Goto(w, "est_new")
    /\ UNCHANGED <<otherVars, svcVars, kafkaVars, sock, mainPc, tries,
                   local, brk, stopVars, histVars>>

\* lines 119-120: the statement after the assignment is client.subscribe()
ReceiveNext == "inner"
SubscribeNext == "subscribe"

\* line 72 and 119: client = (return self._client)
EstablishReturn(w) ==
    /\ pc[w] = "est_ret"
    /\ local' = [local EXCEPT ![w] = client]
    /\ Goto(w, SubscribeNext)
    /\ UNCHANGED <<otherVars, svcVars, kafkaVars, sock, mainPc, tries,
                   brk, stopVars, histVars>>

\* lines 120-123: client.subscribe(...); raises on None or when the
\* library reports an error. The counters of the backoff call that has
\* returned are gone.
Subscribe(w) ==
    /\ pc[w] = "subscribe"
    /\ tries' = [tries EXCEPT ![w] = 0]
    /\ fails' = [fails EXCEPT ![w] = 0]
    /\ IF local[w] = None
         THEN /\ Goto(w, "exc")
              /\ UNCHANGED session
         ELSE /\ (Goto(w, "inner") \/ Goto(w, "exc"))
              /\ session' = [session EXCEPT ![w].subscribed = TRUE]
    /\ UNCHANGED <<otherVars, svcVars, kafkaVars, sock, mainPc,
                   local, brk, stopVars, hist>>

\* line 128: while self._should_run and not self._shutdown_event.is_set()
KeepReceiving == should_run /\ ~shutdown_event

InnerTest(w) ==
    /\ pc[w] = "inner"
    /\ Goto(w, IF KeepReceiving THEN "run" ELSE "chk_event")
    /\ UNCHANGED <<otherVars, svcVars, kafkaVars, sock, mainPc, tries,
                   local, brk, stopVars, histVars>>

\* line 129: client.run_forever_with_exception_check() returns, or raises;
\* a raise while the socket is still open is an unexpected closure
RunForever(w) ==
    /\ pc[w] = "run"
    /\ \/ /\ Goto(w, "nap")
          /\ UNCHANGED session
       \/ /\ Goto(w, "exc")
          /\ session' = [session EXCEPT ![w] =
                 IF sock[local[w]].live
                   THEN [@ EXCEPT !.pending = TRUE, !.waited = 0] ELSE @]
    /\ UNCHANGED <<otherVars, svcVars, kafkaVars, sock, mainPc, tries,
                   local, brk, stopVars, fails, hist>>

\* line 130: time.sleep(0.1)
Nap(w) ==
    /\ pc[w] = "nap"
    /\ Goto(w, "inner")
    /\ UNCHANGED <<otherVars, svcVars, kafkaVars, sock, mainPc, tries,
                   local, brk, stopVars, histVars>>

\* lines 132-134: if self._shutdown_event.is_set(): break
CheckEvent(w) ==
    /\ pc[w] = "chk_event"
    /\ brk' = [brk EXCEPT ![w] = shutdown_event]
    /\ Goto(w, "cleanup_if")
    /\ UNCHANGED <<otherVars, svcVars, kafkaVars, sock, mainPc, tries,
                   local, stopVars, histVars>>

\* line 138: if not self._should_run: break
BreakAlways == TRUE
BreakOnError == ~should_run

\* lines 136-139: except Exception: log, break when stopping
ExceptHandler(w) ==
    /\ pc[w] = "exc"
    /\ IF BreakOnError
         THEN /\ brk' = [brk EXCEPT ![w] = TRUE]
              /\ Goto(w, "cleanup_if")
         ELSE /\ brk' = [brk EXCEPT ![w] = FALSE]
              /\ Goto(w, "delay")
    /\ UNCHANGED <<otherVars, svcVars, kafkaVars, sock, mainPc, tries,
                   local, stopVars, histVars>>

\* line 140: time.sleep(self.config.RECONNECT_DELAY)
Delay(w) ==
    /\ pc[w] = "delay"
    /\ session' = [session EXCEPT ![w].waited =
                        IF session[w].pending THEN @ + RECONNECT_DELAY ELSE @]
    /\ Goto(w, "cleanup_if")
    /\ UNCHANGED <<otherVars, svcVars, kafkaVars, sock, mainPc, tries,
                   local, brk, stopVars, fails, hist>>

\* where the finally block of line 141 leaves to
AfterFinally(w) == IF brk[w] THEN "done" ELSE "loop"

\* line 148: if self._client
CleanupSkipped == FALSE
CleanupNeeded == client # None

CleanupTest(w) ==
    /\ pc[w] = "cleanup_if"
    /\ Goto(w, IF CleanupNeeded THEN "cleanup_close" ELSE AfterFinally(w))
    /\ UNCHANGED <<otherVars, svcVars, kafkaVars, sock, mainPc, tries,
                   local, brk, stopVars, histVars>>

\* WSClient.close() called on socket record s
CloseCall(s) == [s EXCEPT !.live = FALSE, !.closes = @ + 1]

\* line 150: self._client.close(); the field is read again, None raises an
\* AttributeError that line 151 catches
CleanupClose(w) ==
    /\ pc[w] = "cleanup_close"
    /\ sock' = IF client = None THEN sock
               ELSE [sock EXCEPT ![client] = CloseCall(@)]
    /\ Goto(w, "cleanup_null")
    /\ UNCHANGED <<otherVars, svcVars, kafkaVars, mainPc, tries, local,
                   brk, stopVars, histVars>>

\* line 150: self._client.close() raises; the connection is gone all the
\* same
CleanupCloseRaises(w) ==
    /\ pc[w] = "cleanup_close"
    /\ client # None
    /\ hist.closeErrors < MaxCloseErrors
    /\ sock' = [sock EXCEPT ![client] = CloseCall(@)]
    /\ hist' = [hist EXCEPT !.closeErrors = @ + 1]
    /\ Goto(w, "cleanup_exc")
    /\ UNCHANGED <<otherVars, svcVars, kafkaVars, mainPc, tries, local,
                   brk, stopVars, fails, session>>

\* lines 151-152 and 54-55: except Exception: self.logger.error(...)
CloseErrorDropped(l) == l
CloseErrorLogged(l) == [l EXCEPT !.error = @ + 1]

CleanupExcept(w) ==
    /\ pc[w] = "cleanup_exc"
    /\ log' = CloseErrorLogged(log)
    /\ Goto(w, "cleanup_null")
    /\ UNCHANGED <<fixedVars, frame, hpc, event_i, candle_i, metrics, tasks,
                   procVars, svcVars, kafkaVars, sock, mainPc, tries, local,
                   brk, stopVars, histVars>>

\* line 154: finally: self._client = None
CleanupNull(w) ==
    /\ pc[w] = "cleanup_null"
    /\ client' = None
    /\ sock' = Forget(sock, client', local)
    /\ Goto(w, AfterFinally(w))
    /\ UNCHANGED <<otherVars, should_run, shutdown_event, kafka_connected,
                   kafkaVars, mainPc, tries, local, brk, stopVars, histVars>>

\* the steps of the worker that do not wait for the network
Progress(w) ==
    \/ LoopTest(w) \/ EstablishNew(w) \/ EstablishOpen(w) \/ EstablishWait(w)
    \/ EstablishReturn(w) \/ Subscribe(w) \/ InnerTest(w) \/ Nap(w)
    \/ CheckEvent(w) \/ ExceptHandler(w) \/ Delay(w) \/ CleanupTest(w)
    \/ CleanupClose(w) \/ CleanupNull(w)

\* --------------------------------------------------------------- stop()
StopGoto(l) == stopPc' = l

\* stop() is invoked: by the signal handler (main.py:58) or by main()'s
\* finally (main.py:78); a call starts after the previous one has ended
StopCall ==
    /\ stopPc \in {"idle", "done", "cancelled"}
    /\ stopCalls < MaxStops
    /\ stopCalls' = stopCalls + 1
    /\ StopGoto("set_run")
    /\ hist' = [hist EXCEPT !.closedThisStop = 0,
                            !.quiet = IF hist.written THEN 0 ELSE @,
                            !.written = FALSE]
    /\ UNCHANGED <<otherVars, svcVars, kafkaVars, sock, mainPc,
                   workerVars, fails, session>>

\* line 42: self._should_run = False
StopClearRun ==
    /\ stopPc = "set_run"
    /\ should_run' = FALSE
    /\ StopGoto("set_event")
    /\ UNCHANGED <<otherVars, shutdown_event, client, kafka_connected,
                   kafkaVars, sock, mainPc, workerVars, stopCalls, histVars>>

\* asyncio.Event.set(): the flag is true afterwards, whatever it was
EventToggled == ~shutdown_event
EventSet == TRUE

\* line 43: self._shutdown_event.set()
StopSetEvent ==
    /\ stopPc = "set_event"
    /\ shutdown_event' = EventSet
    /\ StopGoto("kafka_if")
    /\ UNCHANGED <<otherVars, should_run, client, kafka_connected,
                   kafkaVars, sock, mainPc, workerVars, stopCalls, histVars>>

\* line 45: if self._kafka_connected
StopKafkaTest ==
    /\ stopPc = "kafka_if"
    /\ StopGoto(IF kafka_connected THEN "disconnect" ELSE "client_if")
    /\ UNCHANGED <<otherVars, svcVars, kafkaVars, sock, mainPc,
                   workerVars, stopCalls, histVars>>

\* line 46, KafkaMessageProducer.disconnect(): await self.producer.stop()
\* returns (self._connected = False) or raises an Exception that
\* disconnect() logs and swallows
StopDisconnect ==
    /\ stopPc = "disconnect"
    /\ IF producer
         THEN \/ /\ connected' = FALSE
                 /\ UNCHANGED hist
              \/ /\ UNCHANGED connected
                 /\ hist' = [hist EXCEPT !.discFailed = TRUE]
         ELSE UNCHANGED <<connected, hist>>
    /\ StopGoto("client_if")
    /\ UNCHANGED <<otherVars, svcVars, producer, sock, mainPc,
                   workerVars, stopCalls, fails, session>>

\* main.py:35-36, shutdown(): every other task is cancelled. stop() is
\* suspended only at the await of line 46; CancelledError is no Exception,
\* so neither disconnect() nor stop() catches it and stop() ends there.
StopCancelled ==
    /\ stopPc = "disconnect"
    /\ StopGoto("cancelled")
    /\ UNCHANGED <<otherVars, svcVars, kafkaVars, sock, mainPc,
                   workerVars, stopCalls, histVars>>

\* line 48: if self._client
StopClientTest ==
    /\ stopPc = "client_if"
    /\ StopGoto(IF client # None THEN "close" ELSE "return")
    /\ UNCHANGED <<otherVars, svcVars, kafkaVars, sock, mainPc,
                   workerVars, stopCalls, histVars>>

\* lines 50-55: self._client.close(); the field is read again, None raises
\* an AttributeError that line 54 catches
StopClose ==
    /\ stopPc = "close"
    /\ IF client = None
         THEN UNCHANGED <<sock, hist>>
         ELSE /\ sock' = [sock EXCEPT ![client] = CloseCall(@)]
              /\ hist' = [hist EXCEPT !.closedThisStop = @ + 1]
    /\ StopGoto("null")
    /\ UNCHANGED <<otherVars, svcVars, kafkaVars, mainPc, workerVars,
                   stopCalls, fails, session>>

\* lines 50-53: self._client.close() raises
StopCloseRaises ==
    /\ stopPc = "close"
    /\ client # None
    /\ hist.closeErrors < MaxCloseErrors
    /\ sock' = [sock EXCEPT ![client] = CloseCall(@)]
    /\ hist' = [hist EXCEPT !.closedThisStop = @ + 1, !.closeErrors = @ + 1]
    /\ StopGoto("close_exc")
    /\ UNCHANGED <<otherVars, svcVars, kafkaVars, mainPc, workerVars,
                   stopCalls, fails, session>>

\* lines 54-55: except Exception: self.logger.error(...)
StopExcept ==
    /\ stopPc = "close_exc"
    /\ log' = CloseErrorLogged(log)
    /\ StopGoto("null")
    /\ UNCHANGED <<fixedVars, frame, hpc, event_i, candle_i, metrics, tasks,
                   procVars, svcVars, kafkaVars, sock, mainPc, workerVars,
                   stopCalls, histVars>>

\* line 57: finally: self._client = None
StopFinallyKeeps == client
StopFinallyClient == None

StopNull ==
    /\ stopPc = "null"
    /\ client' = StopFinallyClient
    /\ sock' = Forget(sock, client', local)
    /\ StopGoto("return")
    /\ UNCHANGED <<otherVars, should_run, shutdown_event, kafka_connected,
                   kafkaVars, mainPc, workerVars, stopCalls, histVars>>

\* the fields of the service and of its producer
Fields == <<should_run, shutdown_event, client, kafka_connected, producer,
            connected>>

\* line 58: stop() returns
StopReturn ==
    /\ stopPc = "return"
    /\ StopGoto("done")
    /\ hist' = [hist EXCEPT !.quiet = IF hist.written THEN 0 ELSE @ + 1,
                            !.endState = Fields]
    /\ UNCHANGED <<otherVars, svcVars, kafkaVars, sock, mainPc,
                   workerVars, stopCalls, fails, session>>

\* the steps of stop() that do not depend on anything outside it
StopStep ==
    \/ StopClearRun \/ StopSetEvent \/ StopKafkaTest \/ StopDisconnect
    \/ StopClientTest \/ StopClose \/ StopNull \/ StopReturn

\* ------------------------------------------------------------ on_message()
\* The WSClient calls on_message once per received frame, from the
\* coroutine that reads its socket: a call ends before the next begins, and
\* the tasks created at line 98 run on that same loop between two calls.
serviceVars == <<svcVars, kafkaVars, sock, mainPc, workerVars, stopVars,
                 histVars>>

HandlerGoto(l) == hpc' = l

\* lines 105-110: the handler an exception raised in the try block goes
\* to; "raised" is an exception that leaves on_message
CatchJsonOnly(exc) == IF exc = "JSONDecodeError" THEN "json_error" ELSE "raised"
Catch(exc) == IF exc = "JSONDecodeError" THEN "json_error" ELSE "error"

\* the frame as on_message gets it; the model notes with it whether the
\* shutdown event was set when it arrived
Stamped(f, late) == f @@ [after_shutdown |-> late]

\* a frame is read from an open socket and handed to on_message
FrameArrives ==
    /\ hpc = "idle"
    /\ LiveSocks # {}
    /\ \E f \in Frames :
          /\ f.kind = "object" =>
                tasks.queued + tasks.sending + CandleCount(f.events)
                   <= MaxTasks
          /\ frame' = Stamped(f, shutdown_event)
    /\ HandlerGoto("parse")
    /\ metrics' = NoMetrics
    /\ log' = NoLog
    /\ tasks' = [tasks EXCEPT !.submitted = <<>>]
    /\ UNCHANGED <<fixedVars, event_i, candle_i, procVars, serviceVars>>

\* line 77: message = json.loads(ws_object)
ParseFrame ==
    /\ hpc = "parse"
    /\ HandlerGoto(IF frame.kind = "not_json" THEN Catch("JSONDecodeError")
                   ELSE "events_test")
    /\ UNCHANGED <<fixedVars, frame, event_i, candle_i, metrics, log,
                   tasks, procVars, serviceVars>>

\* line 79: if 'events' in message; the test raises TypeError on a value
\* that is no container
EventsTest ==
    /\ hpc = "events_test"
    /\ IF frame.kind = "scalar"
         THEN HandlerGoto(Catch("TypeError")) /\ UNCHANGED event_i
         ELSE IF frame.has_events
                THEN HandlerGoto("event") /\ event_i' = 1
                ELSE HandlerGoto("return") /\ UNCHANGED event_i
    /\ UNCHANGED <<fixedVars, frame, candle_i, metrics, log, tasks,
                   procVars, serviceVars>>

CurEvent == frame.events[event_i]

\* lines 81-82: 'type' in event and event['type'] in ['snapshot', 'update']
AnyTypedEvent(e) == e.type # NoKey
CandleEvent(e) == e.type \in {"snapshot", "update"}

\* lines 80-82: for event in message['events']: if 'type' in event and
\* event['type'] in ['snapshot', 'update']
EventTest ==
    /\ hpc = "event"
    /\ IF event_i > Len(frame.events)
         THEN HandlerGoto("return") /\ UNCHANGED <<event_i, candle_i>>
         ELSE IF CandleEvent(CurEvent)
                THEN /\ HandlerGoto("candle")
                     /\ candle_i' = 1
                     /\ UNCHANGED event_i
                ELSE /\ HandlerGoto("event")
                     /\ event_i' = event_i + 1
                     /\ UNCHANGED candle_i
    /\ UNCHANGED <<fixedVars, frame, metrics, log, tasks, procVars,
                   serviceVars>>

\* line 83: the index the i-th iteration over a list of n candles visits
CandleReversed(n, i) == n + 1 - i
CandleIndex(n, i) == i

CurIndex == CandleIndex(Len(CurEvent.candles), candle_i)
CurCandle == CurEvent.candles[CurIndex]
\* where the candle being processed stands in the frame
CurPos == <<event_i, CurIndex>>

\* line 83: for candle in event.get('candles', [])
CandleNext ==
    /\ hpc = "candle"
    /\ IF candle_i > Len(CurEvent.candles)
         THEN HandlerGoto("event") /\ event_i' = event_i + 1
         ELSE HandlerGoto("log") /\ UNCHANGED event_i
    /\ UNCHANGED <<fixedVars, frame, candle_i, metrics, log, tasks,
                   procVars, serviceVars>>

\* logging_utils.py:36-55, log_candle_json: one logger.info with the
\* candle's fields; a missing or unparsable field is caught there and
\* reported with logger.error
log_candle_json(l, c, pos) ==
    IF Complete(c) THEN [l EXCEPT !.info = Append(@, pos)]
    ELSE [l EXCEPT !.error = @ + 1]

\* line 84
LogCandle ==
    /\ hpc = "log"
    /\ log' = log_candle_json(log, CurCandle, CurPos)
    /\ HandlerGoto("publish")
    /\ UNCHANGED <<fixedVars, frame, event_i, candle_i, metrics, tasks,
                   procVars, serviceVars>>

\* line 98: asyncio.create_task(...) schedules the coroutine and returns;
\* the handler goes on whatever the state of the tasks is
PublishAwaited == tasks.queued + tasks.sending = 0
PublishDispatched == TRUE

\* line 98: the tasks after create_task(send_message(...)) for a candle
create_task(t, pos) ==
    [t EXCEPT !.queued = @ + 1, !.submitted = Append(@, pos)]

\* lines 86-98: if KAFKA_ENABLED, build kafka_message (KeyError or
\* ValueError on an incomplete candle) and create the publish task
PublishCandle ==
    /\ hpc = "publish"
    /\ IF KAFKA_ENABLED
         THEN IF Complete(CurCandle)
                THEN /\ tasks' = create_task(tasks, CurPos)
                     /\ HandlerGoto("metrics")
                ELSE /\ HandlerGoto(Catch("KeyError"))
                     /\ UNCHANGED tasks
         ELSE /\ HandlerGoto("metrics")
              /\ UNCHANGED tasks
    /\ UNCHANGED <<fixedVars, frame, event_i, candle_i, metrics, log,
                   procVars, serviceVars>>

\* metrics.py:47-59, Metrics.record_message
record_message_total_only(m, symbol, pos) ==
    [m EXCEPT !.messages_processed = @ + 1,
              !.message_processing_time = @ + 1,
              !.last_message_timestamp = @ + 1,
              !.counted = Append(@, pos)]
record_message(m, symbol, pos) ==
    [m EXCEPT !.messages_processed = @ + 1,
              !.messages_by_symbol[symbol] = @ + 1,
              !.message_processing_time = @ + 1,
              !.last_message_timestamp = @ + 1,
              !.counted = Append(@, pos)]

\* lines 100-103: metrics.record_message(symbol=candle['product_id'], ...);
\* the subscript raises KeyError when the candle has no product_id
RecordMetrics ==
    /\ hpc = "metrics"
    /\ PublishDispatched
    /\ IF CurCandle.product_id = NoKey
         THEN /\ HandlerGoto(Catch("KeyError"))
              /\ UNCHANGED <<metrics, candle_i>>
         ELSE /\ metrics' = record_message(metrics, CurCandle.product_id,
                                           CurPos)
              /\ candle_i' = candle_i + 1
              /\ HandlerGoto("candle")
    /\ UNCHANGED <<fixedVars, frame, event_i, log, tasks, procVars,
                   serviceVars>>

\* lines 105-110: both handlers count a connection error and log it
error_not_counted(m) == m
count_error(m) == [m EXCEPT !.connection_errors = @ + 1]

\* lines 105-107: except json.JSONDecodeError
JsonError ==
    /\ hpc = "json_error"
    /\ metrics' = count_error(metrics)
    /\ log' = [log EXCEPT !.error = @ + 1]
    /\ HandlerGoto("return")
    /\ UNCHANGED <<fixedVars, frame, event_i, candle_i, tasks, procVars,
                   serviceVars>>

\* lines 108-110: except Exception
OtherError ==
    /\ hpc = "error"
    /\ metrics' = count_error(metrics)
    /\ log' = [log EXCEPT !.error = @ + 1]
    /\ HandlerGoto("return")
    /\ UNCHANGED <<fixedVars, frame, event_i, candle_i, tasks, procVars,
                   serviceVars>>

\* on_message returns to the WSClient, which waits for the next frame
HandlerReturn ==
    /\ hpc = "return"
    /\ HandlerGoto("idle")
    /\ frame' = NoFrame
    /\ event_i' = 0
    /\ candle_i' = 0
    /\ UNCHANGED <<fixedVars, metrics, log, tasks, procVars,
                   serviceVars>>

\* the steps of on_message between its call and its return
HandlerStep ==
    \/ ParseFrame \/ EventsTest \/ EventTest \/ CandleNext \/ LogCandle
    \/ PublishCandle \/ RecordMetrics \/ JsonError \/ OtherError
    \/ HandlerReturn

\* ------------------------------------- KafkaMessageProducer.send_message()
\* kafka_producer.py:51-56: a task starts; a disabled producer returns, a
\* producer that is not connected raises RuntimeError into the task, which
\* nothing awaits; otherwise producer.send_and_wait is awaited (line 63)
TaskStart ==
    /\ hpc = "idle"
    /\ tasks.queued > 0
    /\ tasks' = [tasks EXCEPT
                   !.queued = @ - 1,
                   !.sending = IF KAFKA_ENABLED /\ connected /\ producer
                                 THEN @ + 1 ELSE @]
    /\ UNCHANGED <<fixedVars, frame, hpc, event_i, candle_i, metrics, log,
                   procVars, serviceVars>>

\* kafka_producer.py:63-67: send_and_wait returns, or raises and the error
\* is logged and raised into the task
TaskSendReturns ==
    /\ hpc = "idle"
    /\ tasks.sending > 0
    /\ tasks' = [tasks EXCEPT !.sending = @ - 1]
    /\ UNCHANGED <<fixedVars, frame, hpc, event_i, candle_i, metrics, log,
                   procVars, serviceVars>>

TaskSendRaises ==
    /\ hpc = "idle"
    /\ tasks.sending > 0
    /\ tasks' = [tasks EXCEPT !.sending = @ - 1]
    /\ log' = [log EXCEPT !.error = @ + 1]
    /\ UNCHANGED <<fixedVars, frame, hpc, event_i, candle_i, metrics,
                   procVars, serviceVars>>

\* ------------------------------------------- main(): signals and exit
\* The event loop can run a callback: no shutdown() is scheduled, no stop()
\* is between two awaits, and the process has not exited.
LoopIdle == ~shutdown_pending /\ LoopFree /\ exit_status = Running

\* main() is suspended at an await: the connect of start() (line 68), the
\* executor future (line 71), the disconnect inside its own stop() (line
\* 78) or the cancelled health task (line 81)
MainAwaits ==
    \/ mainPc = "init" /\ KAFKA_ENABLED
    \/ mainPc = "running"
    \/ mainPc = "stopping" /\ stopPc = "disconnect"
    \/ mainPc = "health_wait"

\* a call of stop() begins
StopEnter ==
    /\ stopCalls' = stopCalls + 1
    /\ StopGoto("set_run")
    /\ hist' = [hist EXCEPT !.closedThisStop = 0,
                            !.quiet = IF hist.written THEN 0 ELSE @,
                            !.written = FALSE]

\* main.py:56-59, signal_handler: create_task(ws_service.stop()) and
\* create_task(shutdown()). The stop() task runs first, up to its await or
\* its end. A stop() task created while main()'s own stop() is suspended at
\* line 46 writes the two flags again and suspends at the same await.
Signal ==
    /\ handlers
    /\ signals < MaxSignals
    /\ LoopIdle
    /\ MainAwaits
    /\ signals' = signals + 1
    /\ shutdown_pending' = TRUE
    /\ IF stopPc = "disconnect"
         THEN UNCHANGED <<stopVars, hist>>
         ELSE StopEnter
    /\ UNCHANGED <<fixedVars, feedVars, health_task, main_cancelled,
                   handlers, exit_status, svcVars, kafkaVars, sock, mainPc,
                   workerVars, fails, session>>

\* main.py:33-38, shutdown(): every other task is cancelled. A stop()
\* suspended at line 46 ends there; main() gets the CancelledError at its
\* await: it goes to its finally block (lines 68, 71), leaves the finally
\* block it is in (line 78), or catches it (line 82).
Shutdown ==
    /\ shutdown_pending
    /\ LoopFree
    /\ shutdown_pending' = FALSE
    /\ health_task' = "cancelled"
    /\ stopPc' = IF stopPc = "disconnect" THEN "cancelled" ELSE stopPc
    /\ mainPc' = CASE mainPc \in {"init", "running"} -> "finally"
                   [] mainPc = "stopping" -> "aborted"
                   [] mainPc = "health_wait" -> "return"
                   [] OTHER -> mainPc
    /\ main_cancelled' = (main_cancelled \/ mainPc \in {"init", "running",
                                                        "stopping"})
    /\ producer' = (producer \/ mainPc = "init")
    /\ UNCHANGED <<fixedVars, feedVars, handlers, signals, exit_status,
                   svcVars, connected, sock, workerVars, stopCalls, histVars>>

\* a KeyboardInterrupt reaches main() at line 71 (no handler replaces it)
KeyboardInterruptRaised ==
    /\ ~handlers
    /\ mainPc = "running"
    /\ LoopIdle
    /\ mainPc' = "interrupted"
    /\ UNCHANGED <<otherVars, svcVars, kafkaVars, sock, workerVars, stopVars,
                   histVars>>

\* main.py:72-76: except (Exception, KeyboardInterrupt): log
MainExcept ==
    /\ mainPc \in {"failed", "interrupted"}
    /\ LoopIdle
    /\ mainPc' = "finally"
    /\ UNCHANGED <<otherVars, svcVars, kafkaVars, sock, workerVars, stopVars,
                   histVars>>

\* main.py:78: finally: await ws_service.stop()
MainFinallyStop ==
    /\ mainPc = "finally"
    /\ LoopIdle
    /\ stopPc # "disconnect"
    /\ StopEnter
    /\ mainPc' = "stopping"
    /\ UNCHANGED <<otherVars, svcVars, kafkaVars, sock, workerVars, fails,
                   session>>

\* main.py:78: the stop() that main() awaits has returned
MainStopReturned ==
    /\ mainPc = "stopping"
    /\ stopPc = "done"
    /\ LoopIdle
    /\ mainPc' = "health"
    /\ UNCHANGED <<otherVars, svcVars, kafkaVars, sock, workerVars, stopVars,
                   histVars>>

\* main.py:79: health_task.cancel()

MainHealthCancel ==
    /\ mainPc = "health"
    /\ exit_status = Running
    /\ health_task' = "cancelled"
    /\ mainPc' = "health_wait"
    /\ UNCHANGED <<fixedVars, feedVars, main_cancelled, shutdown_pending,
                   handlers, signals, exit_status, svcVars, kafkaVars, sock,
                   workerVars, stopVars, histVars>>

\* main.py:80-83: await health_task, CancelledError is passed over; main()
\* ends
MainHealthAwait ==
    /\ mainPc = "health_wait"
    /\ LoopIdle
    /\ mainPc' = "return"
    /\ UNCHANGED <<otherVars, svcVars, kafkaVars, sock, workerVars, stopVars,
                   histVars>>

\* main.py:85-91: asyncio.run(main()) ends once the executor thread has
\* ended. A main() that ended normally gives exit status 0; the
\* CancelledError of a cancelled main() is not a KeyboardInterrupt, leaves
\* line 87 uncaught and gives exit status 1.
MainExit ==
    /\ mainPc \in {"return", "aborted"}
    /\ exit_status = Running
    /\ ~shutdown_pending
    /\ pc[1] \in {"idle", "done"}
    /\ exit_status' = IF main_cancelled THEN 1 ELSE 0
    /\ UNCHANGED <<fixedVars, feedVars, health_task, main_cancelled,
                   shutdown_pending, handlers, signals, svcVars, kafkaVars,
                   sock, mainPc, workerVars, stopVars, histVars>>

\* the steps of stop() between two awaits, and the end of its await
StopSync ==
    \/ StopClearRun \/ StopSetEvent \/ StopKafkaTest \/ StopClientTest
    \/ StopClose \/ StopNull \/ StopReturn

StopAwaitEnds == ~shutdown_pending /\ StopDisconnect

\* ------------------------------------------------------------ GET /health
\* seconds in timedelta(minutes=1) and timedelta(minutes=5)
ONE_MINUTE == 60
FIVE_MINUTES == 300

\* health.py:13-25. Both calls of datetime.now() (lines 14 and 19) read the
\* clock within the same second.
health_check(now, last) ==
    LET last_msg_time == last
        startup_grace_period == now - FIVE_MINUTES
        is_healthy == (now - last_msg_time < ONE_MINUTE)
                      \/ (startup_grace_period < last_msg_time)
    IN  [status_code |-> IF is_healthy THEN 200 ELSE 503,
         content |-> IF is_healthy THEN "healthy" ELSE "unhealthy"]

\* time passes between two requests; the response of the last request is
\* gone
Tick ==
    /\ \E d \in {1, ONE_MINUTE, FIVE_MINUTES} :
         /\ clock + d <= MaxClock
         /\ clock' = clock + d
    /\ response' = NoResponse
    /\ UNCHANGED <<KAFKA_ENABLED, publisher, recording, delays, recordVars, last_seen, feedVars, procVars,
                   serviceVars>>

\* metrics.py:55-56, record_message(): the gauge is set to the current time
HealthRecord ==
    /\ response = NoResponse
    /\ last_seen # clock
    /\ last_seen' = clock
    /\ UNCHANGED <<KAFKA_ENABLED, publisher, recording, delays, recordVars, clock, response, feedVars, procVars,
                   serviceVars>>

\* health.py:8-28: a GET /health is answered
HealthCheck ==
    /\ response = NoResponse
    /\ response' = health_check(clock, last_seen)
    /\ UNCHANGED <<KAFKA_ENABLED, publisher, recording, delays, recordVars, clock, last_seen, feedVars, procVars,
                   serviceVars>>

\* the health endpoint of a running process
NextHealth == Tick \/ HealthRecord \/ HealthCheck
SpecHealth == Init /\ [][NextHealth]_vars

\* ------------------------------------------- the backoff of line 60
\* @on_exception(expo, WSClientConnectionClosedException, max_tries=5): the
\* decorator is given no jitter argument and no max_value, so the library's
\* defaults apply: expo yields factor * base ** n with base 2 and factor 1,
\* and the time slept is full_jitter(value), drawn uniformly between 0 and
\* the value. Seconds are whole numbers here.
expo(n) == 2 ^ n
full_jitter(value) == 0..value

\* a try has raised WSClientConnectionClosedException and tries are left:
\* the decorator sleeps
BackoffSleep ==
    /\ Len(delays) + 1 < MAX_TRIES
    /\ \E seconds \in full_jitter(expo(Len(delays))) :
         delays' = Append(delays, seconds)
    /\ UNCHANGED <<KAFKA_ENABLED, publisher, recording, healthVars, recordVars, feedVars, procVars,
                   serviceVars>>

\* the call ends: a try has succeeded, has raised another exception, or
\* the last try has failed
BackoffEnds ==
    /\ delays # <<>>
    /\ delays' = <<>>
    /\ UNCHANGED <<KAFKA_ENABLED, publisher, recording, healthVars, recordVars, feedVars, procVars,
                   serviceVars>>

NextBackoff == BackoffSleep \/ BackoffEnds
SpecBackoff == Init /\ [][NextBackoff]_vars

\* ------------------------------------------------- one candle, converted
\* A candle of the candles channel is a JSON object whose values are
\* strings; a string is modelled as the tuple of its characters where the
\* code parses it (`start`).
KAFKA_TOPIC == "coinbase.candles"
CandleKeys == {"product_id", "start", "open", "high", "low", "close",
               "volume"}
Prices == {"60000.00", "61000.00"}
RECURSIVE Strings(_)
Strings(n) ==
    IF n = 0 THEN {<<>>}
    ELSE LET shorter == Strings(n - 1)
         IN  shorter \cup {Append(t, ch) : t \in shorter,
                                             ch \in {"0", "7", "x"}}
SampleStart == <<"1", "6", "3", "7", "0", "0", "1", "6", "0", "0">>
Starts == Strings(MaxDigits) \cup {SampleStart}
FullCandles ==
    [product_id : Symbols, start : Starts, open : Prices, high : Prices,
     low : Prices, close : Prices, volume : Prices]
SampleCandle ==
    [product_id |-> "BTC-USD", start |-> SampleStart, open |-> "60000.00",
     high |-> "61000.00", low |-> "60000.00", close |-> "61000.00",
     volume |-> "60000.00"]
WireCandles ==
    FullCandles
      \cup {[k \in CandleKeys \ {key} |-> SampleCandle[k]] : key \in CandleKeys}

\* int(str): the value of a non-empty string of decimal digits, ValueError
\* otherwise
Digit == ("0" :> 0) @@ ("1" :> 1) @@ ("2" :> 2) @@ ("3" :> 3) @@ ("4" :> 4)
         @@ ("5" :> 5) @@ ("6" :> 6) @@ ("7" :> 7) @@ ("8" :> 8) @@ ("9" :> 9)
IntParses(str) == str # <<>> /\ \A i \in 1..Len(str) : str[i] \in DOMAIN Digit
RECURSIVE int(_)
int(str) ==
    IF str = <<>> THEN 0
    ELSE int(SubSeq(str, 1, Len(str) - 1)) * 10 + Digit[str[Len(str)]]

\* the dict literal of websocket_service.py:87-96 (and logging_utils.py:
\* 39-50, the same literal) raises KeyError for a missing key and
\* ValueError for a `start` that int() rejects; event_time is
\* datetime.fromtimestamp(n).isoformat(), a text determined by n
Convertible(c) == CandleKeys \subseteq DOMAIN c /\ IntParses(c.start)
kafka_message_swapped(c) ==
    [event_time |-> <<"isoformat", int(c.start)>>,
     symbol |-> c.product_id,
     open_price |-> c.open,
     high_price |-> c.low,
     low_price |-> c.high,
     close_price |-> c.close,
     volume |-> c.volume,
     start_time |-> int(c.start)]
kafka_message_dict(c) ==
    [event_time |-> <<"isoformat", int(c.start)>>,
     symbol |-> c.product_id,
     open_price |-> c.open,
     high_price |-> c.high,
     low_price |-> c.low,
     close_price |-> c.close,
     volume |-> c.volume,
     start_time |-> int(c.start)]

\* json.dumps(message): every value becomes a JSON token, the integer a
\* number and the others strings
json_dumps(message) ==
    [k \in DOMAIN message |->
        IF k = "start_time" THEN [token |-> "number", text |-> message[k]]
        ELSE [token |-> "string", text |-> message[k]]]

\* logging_utils.py:36-55, log_candle_json(): logger.info(json.dumps(..)),
\* or logger.error when building the message raises
LogCandleJson ==
    /\ candle # Nothing
    /\ log_message = Nothing
    /\ log_message' =
         IF Convertible(candle)
           THEN [state |-> "info", text |-> json_dumps(kafka_message_dict(candle))]
           ELSE [state |-> "error"]
    /\ UNCHANGED <<KAFKA_ENABLED, publisher, recording, delays, healthVars, candle, kafka_message,
                   published, feedVars, procVars, serviceVars>>

\* websocket_service.py:86-96: the message is built when the broker is
\* enabled
BuildKafkaMessage ==
    /\ log_message # Nothing
    /\ kafka_message = Nothing
    /\ KAFKA_ENABLED
    /\ kafka_message' =
         IF Convertible(candle)
           THEN [state |-> "built", message |-> kafka_message_dict(candle)]
           ELSE [state |-> "raised"]
    /\ UNCHANGED <<KAFKA_ENABLED, publisher, recording, delays, healthVars, candle, log_message,
                   published, feedVars, procVars, serviceVars>>

\* websocket_service.py:98 and kafka_producer.py:49-63, send_message():
\* a timestamp is added and the message handed to send_and_wait()
SendMessage ==
    /\ kafka_message # Nothing
    /\ kafka_message.state = "built"
    /\ published = Nothing
    /\ KAFKA_ENABLED /\ connected /\ producer
    /\ published' =
         [state |-> "sent",
          topic |-> KAFKA_TOPIC,
          message |-> kafka_message.message @@ [timestamp |-> "utcnow"]]
    /\ UNCHANGED <<KAFKA_ENABLED, publisher, recording, delays, healthVars, candle, log_message,
                   kafka_message, feedVars, procVars, serviceVars>>

\* --------------------------------------------------------- specifications
Worker(w) == Progress(w) \/ RunForever(w)

\* the program as main() drives it: one call of connect_and_subscribe()
Next ==
    \/ Start
    \/ Launch
    \/ \E w \in Workers : Worker(w)
    \/ StopCall
    \/ StopStep
    \/ StopCancelled

Spec == Init /\ [][Next]_vars

\* The service called through its public methods: connect_and_subscribe()
\* is invoked a second time. The runs taken are those in which, from the
\* second invocation on, the first loop stays in its blocking receive (or
\* has returned) while the second loop and stop() run.
BeforeSecondCall == pc[2] = "idle" /\ Next
SecondCall == Worker(2)
StopDuringSecondCall == pc[2] # "idle" /\ (StopCall \/ StopStep)

NextRestart ==
    \/ BeforeSecondCall
    \/ StartAgain
    \/ SecondCall
    \/ StopDuringSecondCall

SpecRestart == Init /\ [][NextRestart]_vars

\* The worker thread is scheduled, sleeps end, a receive on a closed socket
\* returns or raises, and the event loop runs a stop() that is not cancelled.
Fairness ==
    /\ WF_vars(Progress(1))
    /\ WF_vars(RunForever(1) /\ ~sock[local[1]].live)
    /\ WF_vars(StopStep)

LiveSpec == Spec /\ Fairness

\* The message path on an established connection. It starts in the state
\* Spec reaches when start() has returned and the first loop has opened and
\* subscribed its first connection and waits in the blocking receive.
Established ==
    /\ should_run = TRUE
    /\ shutdown_event = FALSE
    /\ client = 1
    /\ kafka_connected = KAFKA_ENABLED
    /\ producer = KAFKA_ENABLED
    /\ connected = KAFKA_ENABLED
    /\ sock = [c \in Clients |->
                 IF c = 1 THEN [opened |-> TRUE, live |-> TRUE, closes |-> 0]
                 ELSE FreshSock]
    /\ mainPc = "running"
    /\ pc = [w \in Workers |-> IF w = 1 THEN "run" ELSE "idle"]
    /\ tries = [w \in Workers |-> 0]
    /\ local = [w \in Workers |-> IF w = 1 THEN 1 ELSE None]
    /\ brk = [w \in Workers |-> FALSE]
    /\ stopPc = "idle"
    /\ stopCalls = 0
    /\ fails = [w \in Workers |-> 0]
    /\ session = [w \in Workers |->
                    IF w = 1 THEN [NoDrop EXCEPT !.subscribed = TRUE]
                    ELSE NoDrop]
    /\ hist = [phase |-> "connected", badWait |-> FALSE,
               reconnected |-> FALSE, quiet |-> 0, closedThisStop |-> 0,
               closeErrors |-> 0,
               discFailed |-> FALSE, written |-> TRUE, endState |-> <<>>]

InitFeed ==
    /\ KAFKA_ENABLED \in BOOLEAN
    /\ Established
    /\ FeedInit
    /\ ProcInit

NextFeed ==
    \/ FrameArrives
    \/ HandlerStep
    \/ TaskStart
    \/ TaskSendReturns
    \/ TaskSendRaises

SpecFeed == InitFeed /\ [][NextFeed]_vars

\* on_message is synchronous code: once called it runs to its return. No
\* frame has to arrive and no send has to complete.
LiveFeed == SpecFeed /\ WF_vars(HandlerStep)

\* the message path while stop() runs on the event loop
NextShutdown ==
    \/ NextFeed
    \/ StopCall
    \/ StopStep
    \/ StopCancelled

SpecShutdown == InitFeed /\ [][NextShutdown]_vars

\* The process as main() runs it: start(), the loop in the executor,
\* signals handled by signal_handler (or KeyboardInterrupt where no handler
\* is installed), the finally block and the exit of the interpreter.
\* connect_and_subscribe() returns only after a stop(), and a stop() is
\* called either by main()'s finally block or by the signal handler, whose
\* shutdown() cancels main(): main() never sees line 71 return.
\* the program with a close() that may raise
NextClose ==
    \/ Next
    \/ \E w \in Workers : CleanupCloseRaises(w) \/ CleanupExcept(w)
    \/ StopCloseRaises
    \/ StopExcept
SpecClose == Init /\ [][NextClose]_vars

\* one candle of an established connection, taken through the conversions
InitRecord ==
    /\ KAFKA_ENABLED \in BOOLEAN
    /\ Established
    /\ FeedInit
    /\ health_task = "running"
    /\ main_cancelled = FALSE
    /\ shutdown_pending = FALSE
    /\ signals = 0
    /\ exit_status = Running
    /\ handlers = TRUE
    /\ HealthInit
    /\ delays = <<>>
    /\ publisher = NoPublisher
    /\ recording = [x \in Contexts |-> Outside]
    /\ candle \in WireCandles
    /\ log_message = Nothing
    /\ kafka_message = Nothing
    /\ published = Nothing

NextRecord == LogCandleJson \/ BuildKafkaMessage \/ SendMessage
SpecRecord == InitRecord /\ [][NextRecord]_vars

\* ------------------------------------------------- KafkaMessageProducer
\* The publisher's three methods, called the way the service calls them:
\* connect() once (start(), websocket_service.py:31), disconnect() by every
\* stop() that finds _kafka_connected set (lines 45-46), send_message() by
\* the tasks of line 98 at any time. The coroutines share one event loop, so
\* each runs from one await to the next without interleaving. connect() is
\* also called on a disabled publisher, which start() never does (line 29),
\* to take the branch of lines 20-22.
pubFrame == <<recording, delays, healthVars, recordVars, feedVars, procVars,
              should_run, shutdown_event, client, sock, mainPc, workerVars,
              stopVars, histVars>>

\* kafka_producer.py:20-31: a disabled publisher returns; an enabled one
\* creates the AIOKafkaProducer and awaits its start()
Connect ==
    /\ publisher.connect = "idle"
    /\ IF ~KAFKA_ENABLED
         THEN /\ publisher' = [publisher EXCEPT !.connect = "returned"]
              /\ UNCHANGED producer
         ELSE /\ producer' = TRUE
              /\ publisher' = [publisher EXCEPT !.connect = "start",
                                                !.broker.start = @ + 1]
    /\ UNCHANGED <<KAFKA_ENABLED, connected, kafka_connected, pubFrame>>

\* kafka_producer.py:32-33 and websocket_service.py:32: start() has
\* returned, _connected and then _kafka_connected are set
ConnectReturns ==
    /\ publisher.connect = "start"
    /\ connected' = TRUE
    /\ kafka_connected' = TRUE
    /\ publisher' = [publisher EXCEPT !.connect = "returned"]
    /\ UNCHANGED <<KAFKA_ENABLED, producer, pubFrame>>

\* kafka_producer.py:34-37 and websocket_service.py:33-35: start() has
\* raised; the error is logged and raised again, twice
ConnectRaises ==
    /\ publisher.connect = "start"
    /\ publisher' = [publisher EXCEPT !.connect = "raised"]
    /\ UNCHANGED <<KAFKA_ENABLED, producer, connected, kafka_connected,
                   pubFrame>>

\* websocket_service.py:45-46 and kafka_producer.py:41-43: stop() calls
\* disconnect(), which awaits producer.stop() when there is a producer and
\* returns at once when there is none
Disconnect ==
    /\ kafka_connected
    /\ publisher.disconnects < MaxStops
    /\ publisher' =
         IF producer
           THEN [publisher EXCEPT !.disconnects = @ + 1,
                                  !.stopping = @ + 1,
                                  !.broker.stop = @ + 1]
           ELSE [publisher EXCEPT !.disconnects = @ + 1,
                                  !.disconnected = TRUE]
    /\ UNCHANGED <<KAFKA_ENABLED, producer, connected, kafka_connected,
                   pubFrame>>

\* kafka_producer.py:44: what disconnect() writes to self._connected
StillConnected == TRUE
Disconnected == FALSE

\* kafka_producer.py:44-45: producer.stop() has returned
DisconnectReturns ==
    /\ publisher.stopping > 0
    /\ connected' = Disconnected
    /\ publisher' = [publisher EXCEPT !.stopping = @ - 1,
                                      !.disconnected = TRUE]
    /\ UNCHANGED <<KAFKA_ENABLED, producer, kafka_connected, pubFrame>>

\* kafka_producer.py:46-47: producer.stop() has raised; the error is logged
\* and _connected keeps its value
DisconnectRaises ==
    /\ publisher.stopping > 0
    /\ publisher' = [publisher EXCEPT !.stopping = @ - 1]
    /\ UNCHANGED <<KAFKA_ENABLED, producer, connected, kafka_connected,
                   pubFrame>>

\* kafka_producer.py:51-63: send_message() up to its await. A disabled
\* publisher returns (line 53); one that is not connected or has no
\* producer raises RuntimeError (line 56); otherwise send_and_wait() is
\* called and awaited (line 63)
SendMessageCall ==
    /\ publisher.sends < MaxSends
    /\ publisher' =
         IF ~KAFKA_ENABLED
           THEN [publisher EXCEPT !.sends = @ + 1]
           ELSE IF ~connected \/ ~producer
                  THEN [publisher EXCEPT !.sends = @ + 1,
                                         !.refused = @ + 1]
                  ELSE [publisher EXCEPT !.sends = @ + 1,
                                         !.sending = @ + 1,
                                         !.broker.send_and_wait = @ + 1]
    /\ UNCHANGED <<KAFKA_ENABLED, producer, connected, kafka_connected,
                   pubFrame>>

\* kafka_producer.py:63-67: send_and_wait() returns or raises; neither
\* writes a field of the publisher
SendAndWaitEnds ==
    /\ publisher.sending > 0
    /\ publisher' = [publisher EXCEPT !.sending = @ - 1]
    /\ UNCHANGED <<KAFKA_ENABLED, producer, connected, kafka_connected,
                   pubFrame>>

NextPublisher ==
    \/ Connect \/ ConnectReturns \/ ConnectRaises
    \/ Disconnect \/ DisconnectReturns \/ DisconnectRaises
    \/ SendMessageCall \/ SendAndWaitEnds

SpecPublisher == Init /\ [][NextPublisher]_vars

\* ------------------------------------------- Metrics.record_message()
\* record_message() line by line, entered by several contexts at once.
\* Counter.inc() of prometheus_client adds under the value's lock, so each
\* increment is one step; a context can be preempted between two lines.
\* `counted` is the handler's own record and stays as it is here.
metricsFrame == <<KAFKA_ENABLED, publisher, delays, healthVars, recordVars,
                  frame, hpc, event_i, candle_i, log, tasks, procVars,
                  serviceVars>>

\* calls of record_message() entered so far
Entered ==
    metrics.messages_processed
      + Cardinality({x \in Contexts : recording[x].line = 52})

\* metrics.py:47-51: a context calls record_message(symbol, ...)
RecordCall(x) ==
    /\ recording[x] = Outside
    /\ Entered < MaxRecords
    /\ \E symbol \in Symbols :
         recording' = [recording EXCEPT ![x] = [line |-> 52,
                                                symbol |-> symbol]]
    /\ UNCHANGED <<metrics, metricsFrame>>

\* metrics.py:52: self.messages_processed.inc()
IncProcessed(x) ==
    /\ recording[x].line = 52
    /\ metrics' = [metrics EXCEPT !.messages_processed = @ + 1]
    /\ recording' = [recording EXCEPT ![x].line = 53]
    /\ UNCHANGED metricsFrame

\* metrics.py:53: self.messages_by_symbol.labels(symbol=symbol).inc()
by_symbol_kept(m, symbol) == m
by_symbol_inc(m, symbol) == [m EXCEPT !.messages_by_symbol[symbol] = @ + 1]

IncBySymbol(x) ==
    /\ recording[x].line = 53
    /\ metrics' = by_symbol_inc(metrics, recording[x].symbol)
    /\ recording' = [recording EXCEPT ![x].line = 54]
    /\ UNCHANGED metricsFrame

\* metrics.py:54-57: the histogram observes, the gauge is set, and the call
\* returns
ObserveAndReturn(x) ==
    /\ recording[x].line = 54
    /\ metrics' = [metrics EXCEPT !.message_processing_time = @ + 1,
                                  !.last_message_timestamp = @ + 1]
    /\ recording' = [recording EXCEPT ![x] = Outside]
    /\ UNCHANGED metricsFrame

NextMetrics ==
    \E x \in Contexts :
       RecordCall(x) \/ IncProcessed(x) \/ IncBySymbol(x)
         \/ ObserveAndReturn(x)

SpecMetrics == Init /\ [][NextMetrics]_vars

InitMain ==
    /\ ServiceInit
    /\ FeedInit
    /\ ProcStart
    /\ handlers \in BOOLEAN

NextMain ==
    \/ LoopIdle /\ Start
    \/ LoopIdle /\ Launch
    \/ Worker(1)
    \/ Signal
    \/ Shutdown
    \/ KeyboardInterruptRaised
    \/ MainExcept
    \/ MainFinallyStop
    \/ MainStopReturned
    \/ MainHealthCancel
    \/ MainHealthAwait
    \/ MainExit
    \/ StopSync
    \/ StopAwaitEnds

SpecMain == InitMain /\ [][NextMain]_vars

TypeOK ==
    /\ client \in Clients \cup {None}
    /\ pc \in [Workers -> {"idle", "loop", "est_new", "est_open", "est_wait",
                           "est_ret", "subscribe", "inner", "run", "nap",
                           "chk_event", "exc", "delay", "cleanup_if",
                           "cleanup_close", "cleanup_exc", "cleanup_null",
                           "done"}]
    /\ stopPc \in {"idle", "set_run", "set_event", "kafka_if", "disconnect",
                   "client_if", "close", "close_exc", "null", "return", "done",
                   "cancelled"}
    /\ hpc \in {"idle", "parse", "events_test", "event", "candle", "log",
                 "publish", "metrics", "json_error", "error", "return",
                 "raised"}
    /\ \/ frame = NoFrame
       \/ \E f \in Frames, late \in BOOLEAN : frame = Stamped(f, late)
    /\ tasks.queued + tasks.sending <= MaxTasks

\* the pool of tracked WSClient objects never runs out under Spec
PoolOK == \A w \in Workers : pc[w] = "est_new" => HasFree

\* ------------------------------------------------------------- properties
EstablishPcs == {"est_new", "est_open", "est_wait", "est_ret"}
ConnectedPcs == {"subscribe", "inner", "run", "nap", "chk_event"}

\* C1: when all MAX_TRIES handshake attempts of the first connect fail, the
\* connection manager fails fatally and makes no further connection attempt.
C1_ExhaustionIsFatal ==
    hist.phase = "exhausted" => pc[1] \notin EstablishPcs \cup ConnectedPcs

C4_NoAttemptAfterShutdown ==
    [][shutdown_event =>
         \A w \in Workers :
            /\ ~(pc[w] = "est_new" /\ pc'[w] = "est_open")
            /\ ~(pc[w] = "est_open" /\ client # None /\ pc'[w] # "est_open")]_vars

\* C5: after stop() has been called, connect_and_subscribe eventually
\* returns.
C5_LoopReturns == (stopCalls > 0 /\ pc[1] # "idle") ~> (pc[1] = "done")

\* C6: a stop() that follows a returned stop(), with no other operation
\* writing the fields since the first was called and no disconnect having
\* failed, ends in the same state as the first (flags set, handle None,
\* producer disconnected) and closes no socket.
C6_StopTwice ==
    (stopPc = "return" /\ hist.quiet >= 1
       /\ ~hist.written /\ ~hist.discFailed) =>
        /\ Fields = hist.endState
        /\ ~should_run /\ shutdown_event
        /\ client = None
        /\ ~connected
        /\ hist.closedThisStop = 0

C6_Witness ==
    /\ stopPc = "return" /\ hist.quiet = 1
    /\ ~hist.written /\ ~hist.discFailed
    /\ kafka_connected
    /\ pc[1] = "run"
    /\ local[1] # None /\ sock[local[1]].closes = 1

\* C7: every stop() that has ended has set the shutdown flags and has run
\* the socket-release step (lines 48-57), which only a stop() that returns
\* has done: none ends at the await of line 46.
C7_AllReleaseSteps ==
    stopPc \in {"done", "cancelled"} =>
        ~should_run /\ shutdown_event /\ stopPc = "done"

\* C8: at most one socket is open at any time.
C8_OneLiveSocket == Cardinality(LiveSocks) <= 1

C8_Witness ==
    /\ hist.reconnected
    /\ Cardinality(LiveSocks) = 1
    /\ stopPc = "close"
    /\ pc[1] = "est_ret"

\* C9: a second invocation of connect_and_subscribe creates no connection
\* and issues no subscribe.
C9_SecondStartIsNoop ==
    pc[2] \notin (EstablishPcs \ {"est_new"}) \cup ConnectedPcs

\* C10: close() is called at most once on any WSClient.
C10_NoDoubleClose == \A c \in Clients : sock[c].closes <= 1

\* ------------------------------------------------ properties of on_message
\* the frame on_message is about to return from, and its candles
Returning == hpc = "return"

\* C11: no frame makes on_message raise, close the connection or replace
\* it; a frame that is not valid JSON adds one to the connection-error
\* counter and has no other effect on the sinks, and on_message is then
\* ready for the next frame.
C11_MalformedFrameSkipped ==
    /\ hpc # "raised"
    /\ client = 1 /\ sock[1].live
    /\ (Returning /\ frame.kind = "not_json") =>
          /\ metrics = [NoMetrics EXCEPT !.connection_errors = 1]
          /\ log.info = <<>>
          /\ tasks.submitted = <<>>
    /\ hpc = "idle" => frame = NoFrame /\ ENABLED FrameArrives

C11_Witness ==
    /\ Returning /\ frame.kind = "not_json"
    /\ metrics.connection_errors = 1
    /\ log.error = 1

\* the sinks have received nothing since on_message was entered
SinksUntouched ==
    /\ metrics = NoMetrics
    /\ log = NoLog
    /\ tasks.submitted = <<>>

\* the candles that have reached a sink during this call
Touched ==
    {log.info[i] : i \in DOMAIN log.info}
      \cup {metrics.counted[i] : i \in DOMAIN metrics.counted}
      \cup {tasks.submitted[i] : i \in DOMAIN tasks.submitted}

\* C12: a JSON object without the key `events` leaves the counters, the
\* timestamp, the log and the publish submissions unchanged; and so does
\* every event whose type is missing or is neither snapshot nor update: no
\* candle of such an event reaches a sink, and a frame made of such events
\* only changes nothing.
C12_NoEventsIgnored ==
    /\ (Returning /\ frame.kind = "object" /\ ~frame.has_events)
          => SinksUntouched
    /\ hpc \notin {"idle", "raised"} =>
          \A pos \in Touched :
             frame.events[pos[1]].type \in {"snapshot", "update"}
    /\ (Returning /\ frame.kind = "object"
          /\ \A i \in DOMAIN frame.events :
                frame.events[i].type \notin {"snapshot", "update"})
          => SinksUntouched

C12_Witness ==
    /\ Returning
    /\ frame.kind = "object" /\ ~frame.has_events
    /\ SinksUntouched

\* the places of the candles of the snapshot and update events of frame f
CandlePlaces(f) ==
    {pos \in (DOMAIN f.events) \X (1..MaxFrameSize) :
        /\ f.events[pos[1]].type \in {"snapshot", "update"}
        /\ pos[2] <= Len(f.events[pos[1]].candles)}
CandleOf(f, pos) == f.events[pos[1]].candles[pos[2]]
\* place p comes before place q on the wire
Before(p, q) == p[1] < q[1] \/ (p[1] = q[1] /\ p[2] < q[2])
\* how often place pos occurs in the sequence q
Times(q, pos) == Cardinality({i \in DOMAIN q : q[i] = pos})
\* the candle cannot be processed: a field that is read is missing
Unprocessable(c) == c.product_id = NoKey \/ (KAFKA_ENABLED /\ ~c.rest_ok)

\* the candle at pos has had one metrics update, one log record and the
\* publish submission the configuration asks for
ProcessedOnce(pos) ==
    /\ Times(metrics.counted, pos) = 1
    /\ Times(log.info, pos) = 1
    /\ Times(tasks.submitted, pos) = IF KAFKA_ENABLED THEN 1 ELSE 0

\* one metrics update is one more in the total, in the symbol's counter, in
\* the histogram and one set() of the gauge
MetricsAgree ==
    /\ metrics.messages_processed = Len(metrics.counted)
    /\ metrics.message_processing_time = Len(metrics.counted)
    /\ metrics.last_message_timestamp = Len(metrics.counted)
    /\ \A y \in Symbols :
          metrics.messages_by_symbol[y] =
             Cardinality({i \in DOMAIN metrics.counted :
                 CandleOf(frame, metrics.counted[i]).product_id = y})

\* C13 as stated: every valid candle of a snapshot or update event has had,
\* when on_message returns, exactly one metrics update, one log record and
\* one publish submission if the broker is enabled, none if it is not.
C13_EveryValidCandleOnce ==
    (Returning /\ frame.kind = "object") =>
        /\ MetricsAgree
        /\ \A pos \in CandlePlaces(frame) :
              Complete(CandleOf(frame, pos)) => ProcessedOnce(pos)

\* C13 amended: the same for every valid candle that no unprocessable
\* candle precedes in its frame.
C13_ReachedCandleOnce ==
    (Returning /\ frame.kind = "object") =>
        /\ MetricsAgree
        /\ \A pos \in CandlePlaces(frame) :
              (/\ Complete(CandleOf(frame, pos))
               /\ \A q \in CandlePlaces(frame) :
                     Before(q, pos) => ~Unprocessable(CandleOf(frame, q)))
                 => ProcessedOnce(pos)

C13_Witness ==
    /\ Returning /\ frame.kind = "object"
    /\ KAFKA_ENABLED
    /\ Len(frame.events) = 1
    /\ Len(frame.events[1].candles) = 2
    /\ metrics.messages_by_symbol["BTC-USD"] = 1
    /\ metrics.messages_by_symbol["ETH-USD"] = 1
    /\ ProcessedOnce(<<1, 1>>) /\ ProcessedOnce(<<1, 2>>)

\* the places in the sequence q
Places(q) == {q[i] : i \in DOMAIN q}

\* C14: candles are processed in the order of the wire: as soon as a candle
\* has a log record or a metrics update, every candle before it in the
\* frame has had its metrics update and (if it is valid) its log record,
\* and no candle is logged or counted twice. Frames themselves are handled
\* one call after the other.
C14_ArrivalOrder ==
    hpc \notin {"idle", "parse", "events_test", "raised"} =>
        /\ \A q \in Places(log.info) \cup Places(metrics.counted) :
              /\ Times(log.info, q) <= 1
              /\ Times(metrics.counted, q) <= 1
              /\ \A r \in CandlePlaces(frame) :
                    Before(r, q) =>
                       /\ r \in Places(metrics.counted)
                       /\ Complete(CandleOf(frame, r))
                            => r \in Places(log.info)
        /\ \A i, j \in DOMAIN log.info :
              i < j => Before(log.info[i], log.info[j])
        /\ \A i, j \in DOMAIN metrics.counted :
              i < j => Before(metrics.counted[i], metrics.counted[j])

C14_Witness ==
    /\ hpc = "metrics"
    /\ candle_i = 2
    /\ log.info = << <<1, 1>>, <<1, 2>> >>
    /\ metrics.counted = << <<1, 1>> >>

\* a publish task ends with an exception in this step: send_message raises
\* "not connected" before it calls the broker, or send_and_wait raises
PublishFails ==
    \/ /\ tasks'.queued < tasks.queued
       /\ tasks'.sending = tasks.sending
       /\ KAFKA_ENABLED
    \/ /\ tasks'.sending < tasks.sending
       /\ log'.error > log.error

\* C15: every publish failure is logged and adds one to the
\* connection-error counter, and leaves the handler ready for the frames
\* that follow.
C15_PublishFailureCounted ==
    [][PublishFails =>
         /\ log'.error = log.error + 1
         /\ metrics'.connection_errors = metrics.connection_errors + 1
         /\ hpc' = "idle"]_vars

\* C16: a call of on_message always comes to its return, whether or not
\* the publishes dispatched so far ever complete (LiveFeed assumes nothing
\* about the tasks), so the candles of later frames are logged and counted
\* while earlier sends are still outstanding.
C16_FireAndForget == (hpc # "idle") ~> (hpc = "idle")

C16_Witness ==
    /\ tasks.sending >= 1
    /\ hpc = "candle"
    /\ tasks.submitted # <<>>
    /\ metrics.messages_processed = 1
    /\ Len(log.info) = 1

\* C17: no publish task is created for a candle of a frame that arrived
\* after stop() had set the shutdown event.
C17_NoPublishAfterShutdown ==
    [][(hpc # "idle" /\ frame.after_shutdown)
          => tasks'.queued <= tasks.queued]_vars

\* ------------------------------------------------- properties of main()
\* C18: start() with the broker enabled connects the producer and marks
\* the service connected, or fails with the error of the connect and leaves
\* the service unmarked; with the broker disabled it returns without
\* creating or connecting a producer.
C18_StartContract ==
    /\ mainPc = "init" => ~kafka_connected /\ ~producer
    /\ mainPc = "failed" => KAFKA_ENABLED /\ ~kafka_connected /\ ~connected
    /\ mainPc \in {"started", "running"} =>
          /\ kafka_connected = KAFKA_ENABLED
          /\ producer = KAFKA_ENABLED
          /\ ~KAFKA_ENABLED => ~connected

C18_Witness ==
    /\ mainPc = "failed"
    /\ KAFKA_ENABLED /\ producer
    /\ ~kafka_connected /\ ~connected

\* start() has raised the error of the broker connect
StartFailed == KAFKA_ENABLED /\ ~kafka_connected /\ ~main_cancelled

\* C19: when start() fails on the broker connect, or the first connect has
\* used up its attempts, the process exits with a non-zero status, after
\* stop() has been called.
C19_FatalStartupExit ==
    (exit_status # Running /\ (StartFailed \/ hist.phase = "exhausted")) =>
        /\ exit_status # 0
        /\ stopCalls >= 1

\* C20: whenever the process has exited, main() has run its finally block
\* to the end: the stop() it awaits has returned (flags set, socket handle
\* cleared) and the health task is cancelled.
C20_StopBeforeExit ==
    exit_status # Running =>
        /\ mainPc = "return"
        /\ ~should_run /\ shutdown_event
        /\ health_task = "cancelled"

\* C21: a shutdown triggered by one signal in which no release step fails
\* and main() runs its finally block to the end gives exit status 0.
C21_CleanSignalExit ==
    (/\ exit_status # Running
     /\ signals = 1
     /\ mainPc = "return"
     /\ ~hist.discFailed) => exit_status = 0

\* ------------------------------------------------- properties of /health
\* C22: GET /health answers 200 "healthy" exactly when a record was
\* processed within the last minute or the process started less than five
\* minutes ago, and 503 "unhealthy" otherwise.
C22_HealthBoundary ==
    response # NoResponse =>
        LET fresh == clock - last_seen < ONE_MINUTE
            grace == clock - Boot < FIVE_MINUTES
        IN  response = IF fresh \/ grace
                         THEN [status_code |-> 200, content |-> "healthy"]
                         ELSE [status_code |-> 503, content |-> "unhealthy"]

\* ------------------------------------------- properties of the conversion
\* the integer n is what the decimal string str denotes
RECURSIVE Denotes(_, _)
Denotes(str, n) ==
    IF str = <<>> THEN n = 0
    ELSE /\ n % 10 = Digit[str[Len(str)]]
         /\ Denotes(SubSeq(str, 1, Len(str) - 1), n \div 10)

\* the fields of m are those of the candle c
SameFields(m, c) ==
    /\ m.symbol = c.product_id
    /\ Denotes(c.start, m.start_time)
    /\ m.open_price = c.open
    /\ m.high_price = c.high
    /\ m.low_price = c.low
    /\ m.close_price = c.close
    /\ m.volume = c.volume

\* C23: with the broker enabled the message built for a candle, and the
\* message handed to the producer for the configured topic, carry the
\* candle's product_id as symbol, its start as the integer start_time and
\* its open, high, low, close and volume unchanged; a candle that has all
\* its fields is never refused; the log entry carries the same values.
C23_PublishedFields ==
    /\ kafka_message # Nothing =>
         IF CandleKeys \subseteq DOMAIN candle /\ IntParses(candle.start)
           THEN /\ kafka_message.state = "built"
                /\ SameFields(kafka_message.message, candle)
                /\ log_message.state = "info"
                /\ \A k \in DOMAIN kafka_message.message :
                     log_message.text[k].text = kafka_message.message[k]
                /\ log_message.text.start_time.token = "number"
           ELSE kafka_message.state = "raised"
    /\ published # Nothing =>
         /\ published.topic = KAFKA_TOPIC
         /\ SameFields(published.message, candle)

C23_Witness ==
    /\ candle = SampleCandle
    /\ published # Nothing
    /\ published.message.symbol = "BTC-USD"
    /\ published.message.start_time = 1637001600
    /\ log_message.text.symbol.text = "BTC-USD"

\* ------------------------------------------------- properties of close()
\* the except handlers of _cleanup() and stop() that have yet to log
CloseHandlersPending ==
    Cardinality({w \in Workers : pc[w] = "cleanup_exc"})
    + (IF stopPc = "close_exc" THEN 1 ELSE 0)

\* C24: every error raised by close(), in _cleanup() and in stop(), is
\* logged once and not raised: the handler is followed by the finally
\* block, and when _cleanup() or stop() is left after its close step the
\* socket handle is None.
C24_CloseErrorSwallowed ==
    /\ [](hist.closeErrors = log.error + CloseHandlersPending)
    /\ [][/\ \A w \in Workers :
               /\ (pc[w] = "cleanup_exc" /\ pc'[w] # pc[w])
                     => pc'[w] = "cleanup_null"
               /\ (pc[w] = "cleanup_null" /\ pc'[w] # pc[w])
                     => (client' = None /\ pc'[w] \in {"loop", "done"})
          /\ (stopPc = "close_exc" /\ stopPc' # stopPc) => stopPc' = "null"
          /\ (stopPc = "null" /\ stopPc' # stopPc)
                => (client' = None /\ stopPc' = "return")]_vars

C24_Witness ==
    /\ hist.closeErrors = MaxCloseErrors
    /\ log.error = MaxCloseErrors
    /\ hist.closedThisStop = 1
    /\ client = None
    /\ stopPc = "done"
    /\ pc[1] = "done"

\* ---------------------------------------------- properties of the backoff
\* C25: within one call of _establish_connection() the delay slept before
\* a retry is never smaller than the delay slept before the previous one.
C25_DelaysNonDecreasing ==
    \A i \in 1..(Len(delays) - 1) : delays[i] <= delays[i + 1]

\* ------------------------------------ further properties of on_message()
\* C26: the metrics update of a candle comes before its log record and
\* before its publish submission: a candle that is logged or submitted has
\* been counted.
C26_MetricsFirst ==
    (Places(log.info) \cup Places(tasks.submitted)) \subseteq
        Places(metrics.counted)

\* ------------------------------------------- properties of the two flags
\* C27: the shutdown event, once set, stays set and the run flag, once
\* false, stays false; the only steps that write them are lines 42 and 43
\* of stop().
C27_NeverReset ==
    [][/\ shutdown_event => shutdown_event'
       /\ ~should_run => ~should_run'
       /\ should_run' # should_run => stopPc = "set_run"
       /\ shutdown_event' # shutdown_event => stopPc = "set_event"]_vars

C27_Witness ==
    /\ stopCalls = 2
    /\ stopPc = "kafka_if"
    /\ shutdown_event /\ ~should_run
    /\ pc[1] = "done"

\* ------------------------------------------------ properties of subscribe
\* subscribe() is issued only at line 120, on a client whose socket has
\* been opened and that has not been subscribed; the receive loop is
\* entered only with a subscribed client
SubscribeInPlace(w) ==
    /\ (session'[w].subscribed /\ ~session[w].subscribed)
          => (pc[w] = "subscribe" /\ local[w] # None
              /\ sock[local[w]].opened)
    /\ pc[w] = "subscribe" => ~session[w].subscribed
    /\ pc'[w] \in {"inner", "run", "nap"} => session'[w].subscribed

\* C28: every connection that _establish_connection() has established gets
\* exactly one subscribe, after its socket was opened and before the
\* receive loop: line 120 is never left without the subscribe issued.
C28_SubscribeOncePerConnection ==
    [][\A w \in Workers :
          /\ SubscribeInPlace(w)
          /\ (pc[w] = "subscribe" /\ pc'[w] # "subscribe")
                => session'[w].subscribed]_vars

\* C28, amended: subscribe is issued at most once per connection, after the
\* open and before the receive loop, and exactly once unless a stop() has
\* cleared the socket handle before _establish_connection() returned it.
C28_SubscribeUnlessCleared ==
    [][\A w \in Workers :
          /\ SubscribeInPlace(w)
          /\ (pc[w] = "subscribe" /\ pc'[w] # "subscribe")
                => /\ session'[w].subscribed <=> local[w] # None
                   /\ local[w] = None => stopCalls > 0]_vars

C28_Witness ==
    /\ pc[1] = "run"
    /\ hist.reconnected
    /\ session[1].subscribed
    /\ sock[local[1]].opened /\ sock[local[1]].live

\* ------------------------------------------------- properties of sockets
\* C29: once connect_and_subscribe() has returned and no stop() is under
\* way, the socket handle is None and no socket that was opened is still
\* open.
C29_NoSocketLeft ==
    (pc[1] = "done" /\ stopPc \in {"idle", "done"}) =>
        /\ client = None
        /\ LiveSocks = {}

\* ------------------------------------------ a frame with a failing candle
\* the candle at place pos is the first of its frame that cannot be
\* processed
FirstFailing(pos) ==
    /\ pos \in CandlePlaces(frame)
    /\ Unprocessable(CandleOf(frame, pos))
    /\ \A q \in CandlePlaces(frame) :
          Before(q, pos) => ~Unprocessable(CandleOf(frame, q))

\* what the sinks hold of the candle at place pos
Effects(pos) ==
    <<Times(log.info, pos), Times(tasks.submitted, pos),
      Times(metrics.counted, pos)>>

\* C30: when a candle of a frame makes on_message raise, the connection
\* error counter is incremented once for the frame, the failing candle and
\* every candle after it are neither logged, counted nor published, and
\* the candles before it keep their log record, their publish submission
\* and their metrics update; a frame without such a candle counts no error.
C30_FrameAbortedAtFailure ==
    (Returning /\ frame.kind = "object") =>
        /\ \A pos \in CandlePlaces(frame) :
              FirstFailing(pos) =>
                 /\ metrics.connection_errors = 1
                 /\ \A q \in CandlePlaces(frame) :
                       /\ (q = pos \/ Before(pos, q)) => Effects(q) = <<0, 0, 0>>
                       /\ Before(q, pos) =>
                             Effects(q) =
                               <<IF Complete(CandleOf(frame, q)) THEN 1 ELSE 0,
                                 IF KAFKA_ENABLED THEN 1 ELSE 0,
                                 1>>
        /\ (\A pos \in CandlePlaces(frame) :
               ~Unprocessable(CandleOf(frame, pos)))
              => metrics.connection_errors = 0

C30_Witness ==
    /\ Returning /\ frame.kind = "object"
    /\ Len(frame.events) = 1
    /\ FirstFailing(<<1, 1>>)
    /\ <<1, 2>> \in CandlePlaces(frame)
    /\ CandleOf(frame, <<1, 1>>).product_id = NoKey
    /\ Complete(CandleOf(frame, <<1, 2>>))
    /\ metrics.connection_errors = 1
    /\ Effects(<<1, 2>>) = <<0, 0, 0>>

\* C31: once a disconnect() of the publisher has returned without error, no
\* message goes to the broker: every send_message() called afterwards on an
\* enabled publisher raises the "not connected" RuntimeError and makes no
\* call on the broker client. On a disabled publisher no producer is ever
\* created and no call on the broker client is ever made.
C31_NoSendAfterDisconnect ==
    /\ [](~KAFKA_ENABLED =>
            /\ ~producer
            /\ publisher.broker = NoPublisher.broker)
    /\ [][(KAFKA_ENABLED /\ publisher.disconnected
             /\ publisher'.sends = publisher.sends + 1)
          => /\ publisher'.refused = publisher.refused + 1
             /\ publisher'.broker = publisher.broker]_vars

\* a send_message() was refused after a disconnect() that followed a
\* message sent to the broker
C31_Witness ==
    /\ KAFKA_ENABLED
    /\ publisher.disconnected
    /\ publisher.broker.send_and_wait > 0
    /\ publisher.refused > 0
    /\ publisher.stopping = 0

\* the sum of the per-symbol counters
RECURSIVE SumBySymbol(_, _)
SumBySymbol(m, symbols) ==
    IF symbols = {} THEN 0
    ELSE LET y == CHOOSE z \in symbols : TRUE
         IN  m.messages_by_symbol[y] + SumBySymbol(m, symbols \ {y})

\* the contexts between the two increments of record_message()
BetweenIncrements == {x \in Contexts : recording[x].line = 53}

\* C32: whatever record_message() calls have been made, by any number of
\* contexts, the messages-processed counter equals the sum of the
\* per-symbol counters once the calls have returned (while calls are
\* running it is ahead by the number of calls between their two
\* increments), and no step makes either counter smaller.
C32_TotalIsSumOfSymbols ==
    /\ [](metrics.messages_processed
            = SumBySymbol(metrics, Symbols) + Cardinality(BetweenIncrements))
    /\ [][/\ metrics'.messages_processed >= metrics.messages_processed
          /\ \A y \in Symbols :
               metrics'.messages_by_symbol[y]
                 >= metrics.messages_by_symbol[y]]_vars

\* MaxRecords calls, some for each symbol, have been made and have all
\* returned
C32_Witness ==
    /\ \A x \in Contexts : recording[x] = Outside
    /\ \A y \in Symbols : metrics.messages_by_symbol[y] > 0
    /\ metrics.messages_processed = MaxRecords

====
